---- MODULE Spec2Model ----
(***************************************************************************)
(* Neural Detective: the Neuron class of public/js/neuron-simulator.js.    *)
(* One Neuron object is constructed from a parameter object and then       *)
(* receives simulate(steps) and diagnose(steps) calls.  Voltages are the   *)
(* integer millivolt values the program is used with, on which the         *)
(* JavaScript arithmetic is exact.                                         *)
(***************************************************************************)
EXTENDS Integers, Sequences, FiniteSets, TLC

\* ------------------------------------------------------------------ bounds
MaxSteps == 6
MaxCalls == 2

\* default argument of simulate(steps = 20) and diagnose(steps = 20)
DefaultSteps == 20

\* step counts a caller passes: negative, zero, one, two, the two longest
\* short runs, the default
StepChoices == (-1 .. 2) \cup {MaxSteps - 1, MaxSteps, DefaultSteps}

\* parameter objects handed to the constructor
VoltageChoices == {-80, -70}
ThresholdChoices == {-80, -65, -55, 0}
ResetChoices == {-70, -50, -40}
StimulusChoices == {-5, 2, 3, 5}

ParamChoices ==
    [voltage : VoltageChoices, threshold : ThresholdChoices,
     spikeVoltage : {30}, resetVoltage : ResetChoices,
     stimulus : StimulusChoices, name : {"Patient"}]
    \cup {[threshold |-> -55],
          [voltage |-> 0, threshold |-> -55, resetVoltage |-> -70, stimulus |-> 5],
          [voltage |-> -70, threshold |-> -55, resetVoltage |-> -70, stimulus |-> 0],
          [voltage |-> 10, threshold |-> 15, resetVoltage |-> -70, stimulus |-> 5]}

VARIABLES params, neuron, calls, app

vars == <<params, neuron, calls, app>>

\* app where no page is open: the Neuron is called directly
NoPage == <<>>

\* ------------------------------------------------------------- Neuron class

\* params.f ?? d
Nullish(p, f, d) == IF f \in DOMAIN p THEN p[f] ELSE d

\* params.f || d, for a string field
OrDefault(p, f, d) == IF f \in DOMAIN p /\ p[f] # "" THEN p[f] ELSE d

\* reset() that forgets to clear the trace of the previous run
resetKeepsTrace(nr) ==
    [nr EXCEPT !.voltage = IF nr.voltage < 0 THEN nr.voltage ELSE -70]

reset(nr) ==
    [nr EXCEPT !.spikes = 0,
               !.voltageHistory = <<>>,
               !.spikeTimeSteps = <<>>,
               !.simulationLog = <<>>,
               !.voltage = IF nr.voltage < 0 THEN nr.voltage ELSE -70]

NewNeuron(p) ==
    reset([voltage |-> Nullish(p, "voltage", -70),
           threshold |-> Nullish(p, "threshold", -55),
           spikeVoltage |-> Nullish(p, "spikeVoltage", 30),
           resetVoltage |-> Nullish(p, "resetVoltage", -70),
           stimulus |-> Nullish(p, "stimulus", 5),
           name |-> OrDefault(p, "name", "Unknown"),
           spikes |-> 0,
           voltageHistory |-> <<>>,
           spikeTimeSteps |-> <<>>,
           simulationLog |-> <<>>])

\* the firing comparison without the equal case
FiresStrictly(v, threshold) == v > threshold

\* the firing comparison of step
Fires(v, threshold) == v >= threshold

\* the one-based step number in place of the index
SpikeIndexOneBased(timeStep) == timeStep + 1

\* the index step records for a spike
SpikeIndex(timeStep) == timeStep

\* the pre-threshold value left in the history of a spiking step
SpikeSampleUnpatched(nr, v) == v

\* the history sample of a spiking step: overwritten with the peak
SpikeSample(nr, v) == nr.spikeVoltage

\* a spike that leaves the voltage on the peak
AfterSpikeAtPeak(nr) == nr.spikeVoltage

\* the voltage a spike leaves: the peak is assigned, then the reset voltage
AfterSpike(nr) == nr.resetVoltage

\* step(timeStep): the neuron after the call
step(nr, timeStep) ==
    LET v == nr.voltage + nr.stimulus
        pushed == Append(nr.voltageHistory, v)
    IN  IF Fires(v, nr.threshold)
        THEN [nr EXCEPT
                !.voltageHistory = [pushed EXCEPT ![Len(pushed)] = SpikeSample(nr, v)],
                !.voltage = AfterSpike(nr),
                !.spikes = nr.spikes + 1,
                !.spikeTimeSteps = Append(nr.spikeTimeSteps, SpikeIndex(timeStep)),
                !.simulationLog = Append(nr.simulationLog,
                    [timeStep |-> timeStep + 1, type |-> "spike",
                     voltage |-> nr.spikeVoltage,
                     message |-> <<"SPIKE! (Reset to ", nr.resetVoltage, "mV)">>])]
        ELSE [nr EXCEPT
                !.voltageHistory = pushed,
                !.voltage = v,
                !.simulationLog = Append(nr.simulationLog,
                    [timeStep |-> timeStep + 1, type |-> "normal",
                     voltage |-> v,
                     message |-> <<"Voltage = ", v, "mV">>])]

\* for (let t = 0; t < steps; t++) this.step(t)
\* (spikes is never negative: the test makes TLC evaluate one iteration
\* before it enters the next, which keeps its evaluation stack flat)
RECURSIVE StepLoop(_, _, _)
StepLoop(nr, t, steps) ==
    IF t < steps
    THEN LET next == step(nr, t)
         IN  IF next.spikes >= 0 THEN StepLoop(next, t + 1, steps) ELSE next
    ELSE nr

\* the quotient over one step too many
QuotientOffByOne(spikes, steps) == [num |-> spikes, den |-> steps + 1]

\* this.spikes / steps as the exact quotient; 0/0 is NaN
Quotient(spikes, steps) == [num |-> spikes, den |-> steps]

IsNaN(fr) == fr.den = 0 /\ fr.num = 0

\* fr === 0  (also true of -0)
FrIsZero(fr) == fr.den # 0 /\ fr.num = 0

\* fr > a/b and fr < a/b for b > 0; false of NaN
FrGreater(fr, a, b) ==
    \/ fr.den > 0 /\ fr.num * b > a * fr.den
    \/ fr.den < 0 /\ fr.num * b < a * fr.den
    \/ fr.den = 0 /\ fr.num > 0

FrLess(fr, a, b) ==
    \/ fr.den > 0 /\ fr.num * b < a * fr.den
    \/ fr.den < 0 /\ fr.num * b > a * fr.den
    \/ fr.den = 0 /\ fr.num < 0

\* the parameters echoed in the result, read after reset()
EchoParameters(nr) ==
    [threshold |-> nr.threshold,
     resetVoltage |-> nr.resetVoltage,
     stimulus |-> nr.stimulus,
     initialVoltage |-> nr.voltage]

\* simulate(steps): the neuron after the call and the returned results
simulate(nr, steps) ==
    LET r0 == reset(nr)
        parameters == EchoParameters(r0)
        r1 == StepLoop(r0, 0, steps)
    IN  [neuron |-> r1,
         ret |-> [name |-> r0.name,
                  parameters |-> parameters,
                  steps |-> steps,
                  spikes |-> r1.spikes,
                  firingRate |-> Quotient(r1.spikes, steps),
                  voltageHistory |-> r1.voltageHistory,
                  spikeTimeSteps |-> r1.spikeTimeSteps,
                  simulationLog |-> r1.simulationLog]]

\* the reset rule with the wrong limit
PoorResetLoose(nr) == nr.resetVoltage > -40

\* the hyperexcitable rule on a percentage
HyperexcitablePercent(firingRate) == FrGreater(firingRate, 80, 1)

\* the hypoexcitable rule with the limit at one half
HypoexcitableBelowHalf(firingRate) == FrLess(firingRate, 1, 2) /\ FrGreater(firingRate, 0, 1)

\* the hyperexcitable rule with an inclusive comparison
HyperexcitableInclusive(firingRate) == ~ FrLess(firingRate, 4, 5) /\ ~ IsNaN(firingRate)

\* the conditions of the rule chain of diagnose, in source order
PoorReset(nr) == nr.resetVoltage > -50

NoFiring(firingRate) == FrIsZero(firingRate)

Hyperexcitable(firingRate) == FrGreater(firingRate, 4, 5)

Hypoexcitable(firingRate) == FrLess(firingRate, 1, 5) /\ FrGreater(firingRate, 0, 1)

\* the no-firing sub-cause with the limit at 0 mV
ThresholdTooHighAboveZero(nr) == nr.threshold > 0

\* the first sub-cause of the no-firing rule
ThresholdTooHigh(nr) == nr.threshold > -40

\* the second sub-cause with the limit included
StimulusTooWeakInclusive(nr) == nr.stimulus <= 3

\* the second sub-cause of the no-firing rule
StimulusTooWeak(nr) == nr.stimulus < 3

\* the else branch that forgets to set problemType
NormalDiagnosisUntyped(d0) ==
    [d0 EXCEPT
        !.problem = "Normal Function",
        !.explanation = "Neuron shows healthy firing patterns with appropriate frequency",
        !.recommendation = <<"No adjustments needed - parameters are within normal range">>]

\* the final else branch of diagnose; severity keeps its initial 'Normal'
NormalDiagnosis(d0) ==
    [d0 EXCEPT
        !.problem = "Normal Function",
        !.explanation = "Neuron shows healthy firing patterns with appropriate frequency",
        !.recommendation = <<"No adjustments needed - parameters are within normal range">>,
        !.problemType = "normal"]

\* the if / else-if chain of diagnose over the neuron and the run's firing rate
Classify(nr, firingRate) ==
    LET d0 == [case |-> nr.name, problem |-> "Unknown", explanation |-> "",
               recommendation |-> <<>>, severity |-> "Normal",
               problemType |-> "none"]
    IN  IF PoorReset(nr)
        THEN [d0 EXCEPT
                !.problem = "Abnormal Reset Voltage",
                !.severity = "Critical",
                !.problemType = "poor-reset",
                !.explanation = "Reset voltage is too high - neuron fails to properly repolarize after firing, leading to hyperexcitability",
                !.recommendation = <<"Lower reset voltage from ", nr.resetVoltage, "mV to around -70mV for proper repolarization">>]
        ELSE IF NoFiring(firingRate)
        THEN LET d1 == [d0 EXCEPT !.problem = "No Action Potentials",
                                  !.severity = "Critical",
                                  !.problemType = "no-firing"]
             IN  IF ThresholdTooHigh(nr)
                 THEN [d1 EXCEPT
                        !.explanation = "Threshold voltage is too high - neuron cannot reach firing threshold",
                        !.recommendation = <<"Lower threshold from ", nr.threshold, "mV to around -55mV">>]
                 ELSE IF StimulusTooWeak(nr)
                 THEN [d1 EXCEPT
                        !.explanation = "Stimulus is too weak to reach threshold",
                        !.recommendation = <<"Increase stimulus from ", nr.stimulus, "mV to around 5-10mV">>]
                 ELSE [d1 EXCEPT
                        !.explanation = "Neuron parameters prevent action potential generation",
                        !.recommendation = <<"Check threshold, stimulus, and reset voltage parameters">>]
        ELSE IF Hyperexcitable(firingRate)
        THEN LET d1 == [d0 EXCEPT !.problem = "Hyperexcitability",
                                  !.severity = "Critical",
                                  !.problemType = "hyperexcitable"]
             IN  IF nr.threshold < -75
                 THEN [d1 EXCEPT
                        !.explanation = "Threshold voltage is too low - neuron fires too easily",
                        !.recommendation = <<"Raise threshold from ", nr.threshold, "mV to around -55mV">>]
                 ELSE IF nr.resetVoltage > -60
                 THEN [d1 EXCEPT
                        !.explanation = "Reset voltage is too high - neuron stays near threshold",
                        !.recommendation = <<"Lower reset voltage from ", nr.resetVoltage, "mV to around -70mV">>]
                 ELSE [d1 EXCEPT
                        !.explanation = "Neuron fires excessively due to parameter imbalance",
                        !.recommendation = <<"Adjust threshold or reset voltage to reduce excitability">>]
        ELSE IF Hypoexcitable(firingRate)
        THEN LET d1 == [d0 EXCEPT !.problem = "Hypoexcitability",
                                  !.severity = "Mild",
                                  !.problemType = "hypoexcitable",
                                  !.explanation = "Neuron fires but less frequently than normal"]
             IN  IF nr.stimulus < 5
                 THEN [d1 EXCEPT
                        !.recommendation = <<"Increase stimulus from ", nr.stimulus, "mV to around 5-8mV">>]
                 ELSE [d1 EXCEPT
                        !.recommendation = <<"Consider lowering threshold or increasing stimulus strength">>]
        ELSE NormalDiagnosis(d0)

\* diagnose(steps): the neuron after the call, the returned diagnosis, and
\* the results of the simulation it ran
diagnose(nr, steps) ==
    LET sim == simulate(nr, steps)
    IN  [neuron |-> sim.neuron,
         ret |-> Classify(sim.neuron, sim.ret.firingRate),
         results |-> sim.ret]

\* ----------------------------------------------- results held by the caller

\* results.voltageHistory = [...this.voltageHistory] (and the other two
\* arrays): the result gets new array objects, not the neuron's own
ResultsShareArrays == FALSE

\* reset() assigns new empty arrays to the three fields: it does not empty
\* the array objects the fields held
ResetKeepsArrays == FALSE

\* a neuron that hands out its own arrays and empties them in place
WritesReachResultsShared == TRUE

\* whether the writes of a later run (reset, push, the peak overwrite) land in
\* the array objects an earlier result holds
WritesReachResults == ResultsShareArrays /\ ResetKeepsArrays

\* a result object returned earlier, as its holder sees it once a later run
\* has left the neuron as nr; spikes and firingRate are numbers, copied by
\* value into an object literal of the call
Observed(entry, nr) ==
    IF "results" \in DOMAIN entry /\ WritesReachResults
    THEN [entry EXCEPT !.results.voltageHistory = nr.voltageHistory,
                       !.results.spikeTimeSteps = nr.spikeTimeSteps,
                       !.results.simulationLog = nr.simulationLog]
    ELSE entry

ObservedAll(log, nr) == [i \in 1 .. Len(log) |-> Observed(log[i], nr)]

\* --------------------------------------------------------------- the calls

Init ==
    /\ params \in ParamChoices
    /\ neuron = NewNeuron(params)
    /\ calls = <<>>
    /\ app = NoPage

\* a caller invokes neuron.simulate(steps) and keeps the returned object
Simulate(steps) ==
    /\ Len(calls) < MaxCalls
    /\ LET out == simulate(neuron, steps)
       IN  /\ neuron' = out.neuron
           /\ calls' = Append(ObservedAll(calls, out.neuron),
                              [op |-> "simulate", steps |-> steps,
                               before |-> neuron,
                               results |-> out.ret])
    /\ UNCHANGED <<params, app>>

\* a caller invokes neuron.diagnose(steps) and keeps the returned object
Diagnose(steps) ==
    /\ Len(calls) < MaxCalls
    /\ LET out == diagnose(neuron, steps)
       IN  /\ neuron' = out.neuron
           /\ calls' = Append(ObservedAll(calls, out.neuron),
                              [op |-> "diagnose", steps |-> steps,
                               before |-> neuron,
                               results |-> out.results,
                               diagnosis |-> out.ret])
    /\ UNCHANGED <<params, app>>

Next ==
    \/ \E steps \in StepChoices : Simulate(steps)
    \/ \E steps \in StepChoices : Diagnose(steps)

Spec == Init /\ [][Next]_vars

\* ------------------------------------------------------------ the presets

MaxLongSteps == 35

\* CASE_CONFIGS: name, parameters and expectedProblem of each preset (the
\* description texts are not modelled)
CASE_CONFIGS ==
    [n \in {"Case A", "Case B", "Case C", "Case D", "Normal"} |->
        CASE n = "Case A" ->
                [name |-> "Case A",
                 parameters |-> [voltage |-> -70, threshold |-> 0, spikeVoltage |-> 30,
                                 resetVoltage |-> -70, stimulus |-> 2],
                 expectedProblem |-> "No Action Potentials"]
          [] n = "Case B" ->
                [name |-> "Case B",
                 parameters |-> [voltage |-> -70, threshold |-> -80, spikeVoltage |-> 30,
                                 resetVoltage |-> -70, stimulus |-> 5],
                 expectedProblem |-> "Hyperexcitability"]
          [] n = "Case C" ->
                [name |-> "Case C",
                 parameters |-> [voltage |-> -70, threshold |-> -55, spikeVoltage |-> 30,
                                 resetVoltage |-> -40, stimulus |-> 5],
                 expectedProblem |-> "Abnormal Reset"]
          [] n = "Case D" ->
                [name |-> "Case D",
                 parameters |-> [voltage |-> -70, threshold |-> -55, spikeVoltage |-> 30,
                                 resetVoltage |-> -70, stimulus |-> 2],
                 expectedProblem |-> "Hypoexcitability"]
          [] n = "Normal" ->
                [name |-> "Normal",
                 parameters |-> [voltage |-> -70, threshold |-> -55, spikeVoltage |-> 30,
                                 resetVoltage |-> -70, stimulus |-> 5],
                 expectedProblem |-> "Normal Function"]]

PresetNames == DOMAIN CASE_CONFIGS

\* CASE_CONFIGS is a plain object literal: a key it does not own is looked up
\* on Object.prototype
ObjectPrototypeKeys == {"constructor", "__proto__"}

\* what Object.prototype gives for such a key, as far as fromCaseData reads
\* it: the function Object has a name and no parameters, Object.prototype
\* itself has neither
InheritedValue(key) ==
    IF key = "constructor" THEN [name |-> "Object"] ELSE [f \in {} |-> 0]

\* CASE_CONFIGS[caseName]: <<value>>, or <<>> for undefined
PropertyLookup(caseName) ==
    IF caseName \in DOMAIN CASE_CONFIGS THEN <<CASE_CONFIGS[caseName]>>
    ELSE IF caseName \in ObjectPrototypeKeys THEN <<InheritedValue(caseName)>>
    ELSE <<>>

\* { ...caseData.parameters, name: caseData.name }; an undefined name is left out
FromCaseParams(caseData) ==
    LET spread == IF "parameters" \in DOMAIN caseData
                  THEN caseData.parameters ELSE [f \in {} |-> 0]
        keys == DOMAIN spread \cup (IF "name" \in DOMAIN caseData THEN {"name"} ELSE {})
    IN  [f \in keys |-> IF f = "name" THEN caseData.name ELSE spread[f]]

\* Neuron.fromCaseData(caseData)
fromCaseData(caseData) == NewNeuron(FromCaseParams(caseData))

\* createNeuronFromCase(caseName): throws, or returns a new Neuron
createNeuronFromCase(caseName) ==
    LET caseConfig == PropertyLookup(caseName)
    IN  IF caseConfig = <<>>
        THEN [threw |-> TRUE, error |-> <<"Unknown case: ", caseName>>]
        ELSE [threw |-> FALSE,
              params |-> FromCaseParams(caseConfig[1]),
              neuron |-> fromCaseData(caseConfig[1])]

\* getCaseConfig(caseName): <<config>>, or <<>> for null
getCaseConfig(caseName) == PropertyLookup(caseName)

\* names handed to the lookups: the presets, an unknown name, inherited keys
NameChoices == PresetNames \cup {"Case E"} \cup ObjectPrototypeKeys

\* step counts of the preset runs
CaseStepChoices == (1 .. MaxSteps) \cup {DefaultSteps, MaxLongSteps}

\* the caller holds the neuron of one preset
InitCases ==
    \E caseName \in PresetNames :
        /\ params = createNeuronFromCase(caseName).params
        /\ neuron = createNeuronFromCase(caseName).neuron
        /\ calls = <<>>
        /\ app = NoPage

\* the caller invokes createNeuronFromCase and, unless it throws, holds the
\* new neuron from then on
CreateNeuronFromCase(caseName) ==
    /\ Len(calls) < MaxCalls
    /\ LET out == createNeuronFromCase(caseName)
       IN  IF out.threw
           THEN /\ calls' = Append(calls, [op |-> "createNeuronFromCase",
                                           caseName |-> caseName,
                                           before |-> neuron, threw |-> TRUE])
                /\ UNCHANGED <<params, neuron, app>>
           ELSE /\ calls' = Append(calls, [op |-> "createNeuronFromCase",
                                           caseName |-> caseName,
                                           before |-> neuron, threw |-> FALSE,
                                           neuron |-> out.neuron])
                /\ params' = out.params
                /\ neuron' = out.neuron
                /\ UNCHANGED app

\* the caller invokes getCaseConfig
GetCaseConfig(caseName) ==
    /\ Len(calls) < MaxCalls
    /\ calls' = Append(calls, [op |-> "getCaseConfig", caseName |-> caseName,
                               before |-> neuron,
                               ret |-> getCaseConfig(caseName)])
    /\ UNCHANGED <<params, neuron, app>>

NextCases ==
    \/ \E caseName \in NameChoices : CreateNeuronFromCase(caseName)
    \/ \E caseName \in NameChoices : GetCaseConfig(caseName)
    \/ \E steps \in CaseStepChoices : Simulate(steps)
    \/ \E steps \in CaseStepChoices : Diagnose(steps)

SpecCases == InitCases /\ [][NextCases]_vars

\* ------------------------------------------------- the treatment laboratory

\* firingRate >= a/b and firingRate <= a/b for b > 0; false of NaN
FrAtLeast(fr, a, b) == ~ IsNaN(fr) /\ ~ FrLess(fr, a, b)

FrAtMost(fr, a, b) == ~ IsNaN(fr) /\ ~ FrGreater(fr, a, b)

\* normalRanges of analyzeTreatmentEffectiveness
normalRanges ==
    [threshold |-> [min |-> -60, max |-> -50],
     resetVoltage |-> [min |-> -75, max |-> -65],
     stimulus |-> [min |-> 4, max |-> 6]]

\* the range test with the lower limit excluded
InNormalRangeOpenBelow(param, value) ==
    value > normalRanges[param].min /\ value <= normalRanges[param].max

\* range && value >= range.min && value <= range.max
InNormalRange(param, value) ==
    value >= normalRanges[param].min /\ value <= normalRanges[param].max

\* the three clinically adjustable parameters, in the order they are analysed
adjustableParams == <<"threshold", "resetVoltage", "stimulus">>

\* parameterAnalysis: one entry per adjustable parameter
parameterAnalysis(adjustedParams) ==
    [k \in 1 .. Len(adjustableParams) |->
        LET param == adjustableParams[k]
        IN  IF InNormalRange(param, adjustedParams[param])
            THEN [param |-> param, status |-> "normal",
                  value |-> adjustedParams[param]]
            ELSE [param |-> param, status |-> "abnormal",
                  value |-> adjustedParams[param],
                  range |-> normalRanges[param]]]

\* parametersInRange: the number of entries counted as normal
parametersInRange(adjustedParams) ==
    Cardinality({k \in 1 .. Len(adjustableParams) :
                    parameterAnalysis(adjustedParams)[k].status = "normal"})

\* analyzeTreatmentEffectiveness with displayTreatmentFeedback: the feedback
\* panel it leaves on the page
analyzeTreatmentEffectiveness(adjustedParams, results) ==
    LET firingRate == results.firingRate
        inRange == parametersInRange(adjustedParams)
        verdict ==
            IF FrAtLeast(firingRate, 3, 20) /\ FrAtMost(firingRate, 2, 5) /\ inRange = 3
            THEN [effectiveness |-> "Excellent Treatment!", feedbackClass |-> "success"]
            ELSE IF FrAtLeast(firingRate, 1, 10) /\ FrAtMost(firingRate, 3, 5) /\ inRange >= 2
            THEN [effectiveness |-> "Good Treatment", feedbackClass |-> "warning"]
            ELSE [effectiveness |-> "Treatment Needs Adjustment", feedbackClass |-> "error"]
    IN  [effectiveness |-> verdict.effectiveness,
         className |-> verdict.feedbackClass,
         spikes |-> results.spikes,
         steps |-> results.steps,
         parametersFixed |-> inRange,
         message |-> IF verdict.feedbackClass = "success"
                     THEN "Great job! You've successfully restored normal neuronal function!"
                     ELSE "Tip: Try adjusting parameters closer to the normal ranges shown below each slider.",
         display |-> "block"]

\* positions of the three treatment sliders and the selected case
ThresholdSliderChoices == {-61, -60, -50, -49}
ResetSliderChoices == {-76, -75, -65, -64}
StimulusSliderChoices == {3, 4, 6, 7}
TreatedCaseChoices == {"Case A", "Case C"}

\* positions of the time-steps slider
TreatmentStepChoices == {MaxSteps - 1, DefaultSteps}

\* the constructor argument applyTreatment builds: adjustedParameters from the
\* sliders (voltage fixed at -70), spikeVoltage 30 and the treated name
TreatedParams(currentCase, threshold, resetVoltage, stimulus) ==
    [voltage |-> -70, threshold |-> threshold, resetVoltage |-> resetVoltage,
     stimulus |-> stimulus, spikeVoltage |-> 30,
     name |-> currentCase \o " (Treated)"]

\* a case is selected and the sliders stand somewhere; params is what
\* applyTreatment will hand to the constructor
InitTreatment ==
    /\ \E currentCase \in TreatedCaseChoices, threshold \in ThresholdSliderChoices,
          resetVoltage \in ResetSliderChoices, stimulus \in StimulusSliderChoices :
            params = TreatedParams(currentCase, threshold, resetVoltage, stimulus)
    /\ neuron = NewNeuron(params)
    /\ calls = <<>>
    /\ app = NoPage

\* applyTreatment(): a new neuron from the sliders, one simulation, the
\* effectiveness feedback
ApplyTreatment(steps) ==
    /\ Len(calls) < MaxCalls
    /\ LET adjustedNeuron == NewNeuron(params)
           out == simulate(adjustedNeuron, steps)
       IN  /\ neuron' = out.neuron
           /\ calls' = Append(calls,
                [op |-> "applyTreatment", steps |-> steps,
                 before |-> adjustedNeuron,
                 results |-> out.ret,
                 feedback |-> analyzeTreatmentEffectiveness(params, out.ret)])
    /\ UNCHANGED <<params, app>>

NextTreatment == \E steps \in TreatmentStepChoices : ApplyTreatment(steps)

SpecTreatment == InitTreatment /\ [][NextTreatment]_vars

\* ---------------------------------------------------------------- the page
\* NeuralDetectiveApp of the treatment laboratory.  The handlers of
\* public/js/app.js are the same code without the treatment controls.  A
\* null field is <<>>, a set one <<value>>; display fields hold the inline
\* style.display of the element, "" while no handler has set it.

\* user events in one session of the page
MaxClicks == 4

\* positions the time-steps slider is moved to
TimeStepChoices == {MaxSteps - 1, DefaultSteps}

\* options of the case dropdown besides the empty one
CaseOptions == {"Case A", "Case D", "Normal"}

\* positions the treatment sliders are moved to
ThresholdMoves == {-50}
ResetMoves == {-75}
StimulusMoves == {4}

\* the page after the constructor; the sliders stand where the markup puts
\* them, and onCaseSelected sets them before any handler reads them
InitialPage ==
    [currentCase |-> <<>>, currentResults |-> <<>>, originalParameters |-> <<>>,
     caseSelect |-> "", timeSteps |-> DefaultSteps,
     thresholdSlider |-> -55, resetSlider |-> -70, stimulusSlider |-> 5,
     chart |-> [labels |-> <<>>, data |-> <<>>],
     spikeAnalysis |-> <<>>, simulationLog |-> <<>>,
     diagnosisHTML |-> <<>>, feedbackHTML |-> <<>>,
     caseInfo |-> "", resultsSection |-> "", diagnosisCard |-> "",
     diagnosisContent |-> "", showDiagnosisButton |-> "",
     treatmentSection |-> "", treatmentFeedback |-> "",
     alert |-> ""]

\* a listener starts: no alert raised yet
Quiet(a) == [a EXCEPT !.alert = ""]

\* the treatment version hides the treatment section too
hideElements(a) ==
    [a EXCEPT !.caseInfo = "none", !.resultsSection = "none",
              !.diagnosisCard = "none", !.treatmentSection = "none"]

setupTreatmentLaboratory(a, parameters) ==
    [a EXCEPT !.thresholdSlider = parameters.threshold,
              !.resetSlider = parameters.resetVoltage,
              !.stimulusSlider = parameters.stimulus,
              !.treatmentFeedback = "none"]

\* { ...caseConfig.parameters }: a copy, so the preset is not shared
CopyOfParameters(parameters) == [f \in DOMAIN parameters |-> parameters[f]]

\* onCaseSelected with the stored parameters left as they were
onCaseSelectedKeepsOriginal(a, caseName) ==
    IF caseName = ""
    THEN hideElements(a)
    ELSE LET caseConfig == getCaseConfig(caseName)
             a1 == [a EXCEPT !.currentCase = <<caseName>>]
         IN  IF caseConfig = <<>>
             THEN a1
             ELSE [setupTreatmentLaboratory(
                       [a1 EXCEPT !.caseInfo = "block"],
                       caseConfig[1].parameters)
                   EXCEPT !.treatmentSection = "block"]

onCaseSelected(a, caseName) ==
    IF caseName = ""
    THEN hideElements(a)
    ELSE LET caseConfig == getCaseConfig(caseName)
             a1 == [a EXCEPT !.currentCase = <<caseName>>]
         IN  IF caseConfig = <<>>
             THEN a1
             ELSE [setupTreatmentLaboratory(
                       [a1 EXCEPT !.caseInfo = "block",
                                  !.originalParameters =
                                      <<CopyOfParameters(caseConfig[1].parameters)>>],
                       caseConfig[1].parameters)
                   EXCEPT !.treatmentSection = "block"]

\* the average interval shown by displayResults, as an exact quotient
AvgInterval(spikeTimeSteps) ==
    IF Len(spikeTimeSteps) > 1
    THEN [num |-> spikeTimeSteps[Len(spikeTimeSteps)] - spikeTimeSteps[1],
          den |-> Len(spikeTimeSteps) - 1]
    ELSE [num |-> 0, den |-> 1]

displayResults(a, results) ==
    [a EXCEPT !.spikeAnalysis =
        <<[spikes |-> results.spikes,
           firingRate |-> results.firingRate,
           spikeTimes |-> [k \in 1 .. Len(results.spikeTimeSteps) |->
                              results.spikeTimeSteps[k] + 1],
           avgInterval |-> AvgInterval(results.spikeTimeSteps)]>>]

updateChart(a, results) ==
    [a EXCEPT !.chart = [labels |-> [k \in 1 .. Len(results.voltageHistory) |-> k],
                         data |-> results.voltageHistory]]

displaySimulationLog(a, logEntries) == [a EXCEPT !.simulationLog = logEntries]

\* the three display calls runSimulation and applyTreatment make
ShowResults(a, results) ==
    displaySimulationLog(updateChart(displayResults(a, results), results),
                         results.simulationLog)

\* !this.currentCase
NoCaseSelected(a) == a.currentCase = <<>>

\* runSimulation that leaves the revealed diagnosis on the page
AfterRunKeepsDiagnosis(a) ==
    [a EXCEPT !.resultsSection = "block", !.diagnosisCard = "block"]

\* the display changes at the end of a successful runSimulation
AfterRun(a) ==
    [a EXCEPT !.resultsSection = "block", !.diagnosisCard = "block",
              !.showDiagnosisButton = "block", !.diagnosisContent = "none"]

\* this.currentCase as the property key of the lookup: null reads 'null'
CaseKey(a) == IF a.currentCase = <<>> THEN "null" ELSE a.currentCase[1]

runSimulation(a) ==
    IF NoCaseSelected(a)
    THEN [a EXCEPT !.alert = "Please select a case first!"]
    ELSE LET steps == a.timeSteps
             made == createNeuronFromCase(CaseKey(a))
         IN  IF made.threw
             THEN [a EXCEPT !.alert = "An error occurred during simulation. Please try again."]
             ELSE LET results == simulate(made.neuron, steps).ret
                  IN  AfterRun(ShowResults([a EXCEPT !.currentResults = <<results>>],
                                           results))

\* showDiagnosis; the page keeps the diagnosis with the step count it asked
\* for.  An unknown case makes createNeuronFromCase throw out of the handler
showDiagnosis(a) ==
    IF a.currentResults = <<>>
    THEN a
    ELSE LET made == createNeuronFromCase(CaseKey(a))
         IN  IF made.threw
             THEN a
             ELSE [a EXCEPT
                    !.diagnosisHTML = <<[steps |-> a.timeSteps,
                                         diagnosis |-> diagnose(made.neuron, a.timeSteps).ret]>>,
                    !.diagnosisContent = "block",
                    !.showDiagnosisButton = "none"]

\* resetSimulation that forgets the held results
resetSimulationKeepsResults(a) ==
    [hideElements([a EXCEPT !.caseSelect = "", !.timeSteps = 20,
                            !.currentCase = <<>>])
     EXCEPT !.chart = [labels |-> <<>>, data |-> <<>>]]

resetSimulation(a) ==
    [hideElements([a EXCEPT !.caseSelect = "", !.timeSteps = 20,
                            !.currentCase = <<>>, !.currentResults = <<>>])
     EXCEPT !.chart = [labels |-> <<>>, data |-> <<>>]]

\* applyTreatment; the sliders always hold numbers, so the NaN validation
\* passes, and the Neuron constructor does not throw
applyTreatment(a) ==
    IF NoCaseSelected(a)
    THEN a
    ELSE LET steps == a.timeSteps
             adjusted == TreatedParams(a.currentCase[1], a.thresholdSlider,
                                       a.resetSlider, a.stimulusSlider)
             treatmentResults == simulate(NewNeuron(adjusted), steps).ret
         IN  [ShowResults(a, treatmentResults) EXCEPT
                !.feedbackHTML = <<analyzeTreatmentEffectiveness(adjusted, treatmentResults)>>,
                !.treatmentFeedback = "block",
                !.resultsSection = "block",
                !.diagnosisCard = "none"]

resetTreatment(a) ==
    IF a.originalParameters = <<>>
    THEN a
    ELSE setupTreatmentLaboratory(a, a.originalParameters[1])

InitApp ==
    /\ params = <<>>
    /\ neuron = <<>>
    /\ calls = <<>>
    /\ app = InitialPage

\* the user picks an option of the dropdown: the change listener
SelectCase(caseName) ==
    /\ Len(calls) < MaxClicks
    /\ app' = onCaseSelected([Quiet(app) EXCEPT !.caseSelect = caseName], caseName)
    /\ calls' = Append(calls, [op |-> "onCaseSelected", value |-> caseName])
    /\ UNCHANGED <<params, neuron>>

\* the user moves the time-steps slider: the input listener only updates a label
MoveTimeSteps(value) ==
    /\ Len(calls) < MaxClicks
    /\ app' = [Quiet(app) EXCEPT !.timeSteps = value]
    /\ calls' = Append(calls, [op |-> "timeSteps", value |-> value])
    /\ UNCHANGED <<params, neuron>>

ClickRun ==
    /\ Len(calls) < MaxClicks
    /\ app' = runSimulation(Quiet(app))
    /\ calls' = Append(calls, [op |-> "runSimulation"])
    /\ UNCHANGED <<params, neuron>>

ClickShowDiagnosis ==
    /\ Len(calls) < MaxClicks
    /\ app' = showDiagnosis(Quiet(app))
    /\ calls' = Append(calls, [op |-> "showDiagnosis"])
    /\ UNCHANGED <<params, neuron>>

ClickReset ==
    /\ Len(calls) < MaxClicks
    /\ app' = resetSimulation(Quiet(app))
    /\ calls' = Append(calls, [op |-> "resetSimulation"])
    /\ UNCHANGED <<params, neuron>>

MoveThreshold(value) ==
    /\ Len(calls) < MaxClicks
    /\ app' = [Quiet(app) EXCEPT !.thresholdSlider = value]
    /\ calls' = Append(calls, [op |-> "thresholdSlider", value |-> value])
    /\ UNCHANGED <<params, neuron>>

MoveReset(value) ==
    /\ Len(calls) < MaxClicks
    /\ app' = [Quiet(app) EXCEPT !.resetSlider = value]
    /\ calls' = Append(calls, [op |-> "resetSlider", value |-> value])
    /\ UNCHANGED <<params, neuron>>

MoveStimulus(value) ==
    /\ Len(calls) < MaxClicks
    /\ app' = [Quiet(app) EXCEPT !.stimulusSlider = value]
    /\ calls' = Append(calls, [op |-> "stimulusSlider", value |-> value])
    /\ UNCHANGED <<params, neuron>>

ClickApplyTreatment ==
    /\ Len(calls) < MaxClicks
    /\ app' = applyTreatment(Quiet(app))
    /\ calls' = Append(calls, [op |-> "applyTreatment"])
    /\ UNCHANGED <<params, neuron>>

ClickResetTreatment ==
    /\ Len(calls) < MaxClicks
    /\ app' = resetTreatment(Quiet(app))
    /\ calls' = Append(calls, [op |-> "resetTreatment"])
    /\ UNCHANGED <<params, neuron>>

NextApp ==
    \/ \E caseName \in CaseOptions \cup {""} : SelectCase(caseName)
    \/ \E value \in TimeStepChoices : MoveTimeSteps(value)
    \/ ClickRun
    \/ ClickShowDiagnosis
    \/ ClickReset
    \/ \E value \in ThresholdMoves : MoveThreshold(value)
    \/ \E value \in ResetMoves : MoveReset(value)
    \/ \E value \in StimulusMoves : MoveStimulus(value)
    \/ ClickApplyTreatment
    \/ ClickResetTreatment

SpecApp == InitApp /\ [][NextApp]_vars

\* ------------------------------------------------------------- vocabulary

Calls == 1 .. Len(calls)

\* the configuration the neuron was constructed with (params.f ?? default)
ConfigVoltage == Nullish(params, "voltage", -70)
ConfigThreshold == Nullish(params, "threshold", -55)
ConfigResetVoltage == Nullish(params, "resetVoltage", -70)
ConfigStimulus == Nullish(params, "stimulus", 5)

\* the neuron as call i left it
After(i) == IF i = Len(calls) THEN neuron ELSE calls[i + 1].before

StrictlyIncreasing(s) == \A i \in 1 .. Len(s) - 1 : s[i] < s[i + 1]

SpikeEntries(log) == {k \in 1 .. Len(log) : log[k].type = "spike"}

\* the type and severity the rule order gives for s spikes in n > 0 steps
ExpectedKind(resetVoltage, s, n) ==
    IF resetVoltage > -50 THEN <<"poor-reset", "Critical">>
    ELSE IF s = 0 THEN <<"no-firing", "Critical">>
    ELSE IF 5 * s > 4 * n THEN <<"hyperexcitable", "Critical">>
    ELSE IF 5 * s < n THEN <<"hypoexcitable", "Mild">>
    ELSE <<"normal", "Normal">>

\* ------------------------------------------------------------------ claims

\* C1: two simulate(n) calls in a row on the same Neuron, n > 0, return the
\* same voltageHistory, spikeTimeSteps and spikes.
C1_SimulateTwiceIdentical ==
    \A i \in Calls :
        (/\ i + 1 \in Calls
         /\ calls[i].op = "simulate" /\ calls[i + 1].op = "simulate"
         /\ calls[i].steps > 0 /\ calls[i + 1].steps = calls[i].steps)
        => /\ calls[i + 1].results.voltageHistory = calls[i].results.voltageHistory
           /\ calls[i + 1].results.spikeTimeSteps = calls[i].results.spikeTimeSteps
           /\ calls[i + 1].results.spikes = calls[i].results.spikes

\* C2: diagnose is pure: it leaves the Neuron's voltage, spike count and
\* histories as they were, and diagnose(n) repeated, or made after a
\* simulate(n), returns the same problemType and severity as the first
\* diagnose(n) of the Neuron did.
C2_DiagnosePure ==
    /\ \A i \in Calls :
        calls[i].op = "diagnose"
        => /\ After(i).voltage = calls[i].before.voltage
           /\ After(i).spikes = calls[i].before.spikes
           /\ After(i).voltageHistory = calls[i].before.voltageHistory
           /\ After(i).spikeTimeSteps = calls[i].before.spikeTimeSteps
           /\ After(i).simulationLog = calls[i].before.simulationLog
    /\ \A i \in Calls :
        (/\ i + 1 \in Calls
         /\ calls[i + 1].op = "diagnose"
         /\ calls[i + 1].steps = calls[i].steps)
        => LET fresh == diagnose(NewNeuron(params), calls[i].steps).ret
           IN  /\ calls[i + 1].diagnosis.problemType = fresh.problemType
               /\ calls[i + 1].diagnosis.severity = fresh.severity

\* C3: whatever calls came before, simulate(n) with n >= 0 returns a
\* voltageHistory and a simulationLog of length exactly n, and its spikes
\* value counts the spikes of this run only.
C3_FreshTracePerRun ==
    \A i \in Calls :
        (calls[i].op = "simulate" /\ calls[i].steps >= 0)
        => LET r == calls[i].results
           IN  /\ Len(r.voltageHistory) = calls[i].steps
               /\ Len(r.simulationLog) = calls[i].steps
               /\ \A k \in 1 .. Len(r.simulationLog) : r.simulationLog[k].timeStep = k
               /\ r.spikes = Cardinality(SpikeEntries(r.simulationLog))
               /\ r.spikes = Len(r.spikeTimeSteps)

C3_Witness ==
    /\ Len(calls) = 2
    /\ calls[1].results.spikes > 1
    /\ calls[2].op = "simulate"
    /\ calls[2].steps > 0 /\ calls[2].steps < calls[1].steps
    /\ calls[2].results.spikes > 0
    /\ calls[2].results.spikes < calls[1].results.spikes

\* C4: for a positive step count diagnose classifies by the first matching
\* rule, on the firing rate of the run it made: resetVoltage > -50 poor-reset
\* Critical, else rate 0 no-firing Critical, else rate > 0.8 hyperexcitable
\* Critical, else 0 < rate < 0.2 hypoexcitable Mild, else normal Normal.
C4_RuleOrder ==
    \A i \in Calls :
        (calls[i].op = "diagnose" /\ calls[i].steps > 0)
        => <<calls[i].diagnosis.problemType, calls[i].diagnosis.severity>>
             = ExpectedKind(ConfigResetVoltage, calls[i].results.spikes,
                            calls[i].steps)

\* the boundary: reset voltage -50 and a firing rate of exactly 0.8
C4_Witness ==
    \E i \in Calls :
        /\ calls[i].op = "diagnose" /\ calls[i].steps > 0
        /\ ConfigResetVoltage = -50
        /\ 5 * calls[i].results.spikes = 4 * calls[i].steps
        /\ calls[i].diagnosis.problemType = "normal"

\* C5: with resetVoltage > -50 diagnose returns poor-reset, Critical, for
\* every step count and whatever the firing rate is.
C5_PoorResetPriority ==
    \A i \in Calls :
        (calls[i].op = "diagnose" /\ ConfigResetVoltage > -50)
        => /\ calls[i].diagnosis.problemType = "poor-reset"
           /\ calls[i].diagnosis.severity = "Critical"

\* an elevated reset voltage on a run that never fired
C5_Witness ==
    \E i \in Calls :
        /\ calls[i].op = "diagnose" /\ calls[i].steps > 0
        /\ ConfigResetVoltage > -50
        /\ calls[i].results.spikes = 0
        /\ calls[i].diagnosis.problemType = "poor-reset"

\* C6: diagnose returns normal only when resetVoltage <= -50 and the firing
\* rate of the run is defined and within [0.2, 0.8].
C6_NormalOnlyInBand ==
    \A i \in Calls :
        (calls[i].op = "diagnose" /\ calls[i].diagnosis.problemType = "normal")
        => /\ ConfigResetVoltage <= -50
           /\ calls[i].steps > 0
           /\ calls[i].steps <= 5 * calls[i].results.spikes
           /\ 5 * calls[i].results.spikes <= 4 * calls[i].steps

\* C7: when the configured initial voltage plus stimulus equals the threshold,
\* a run of at least one step has a spike at step index 0.
C7_ThresholdBoundary ==
    \A i \in Calls :
        (calls[i].steps >= 1 /\ ConfigVoltage + ConfigStimulus = ConfigThreshold)
        => /\ Len(calls[i].results.spikeTimeSteps) >= 1
           /\ calls[i].results.spikeTimeSteps[1] = 0

\* C8: every run starts step 0 from the configured initial voltage, and
\* result.parameters echoes the configured threshold, resetVoltage, stimulus
\* and initial voltage.
C8_StartsFromConfigured ==
    \A i \in Calls :
        calls[i].op = "simulate"
        => /\ calls[i].results.parameters.initialVoltage = ConfigVoltage
           /\ calls[i].results.parameters.threshold = ConfigThreshold
           /\ calls[i].results.parameters.resetVoltage = ConfigResetVoltage
           /\ calls[i].results.parameters.stimulus = ConfigStimulus

\* C9: in every simulate result spikeTimeSteps is strictly increasing, each
\* index is in 0 .. steps - 1, and its length is result.spikes.
C9_SpikeIndices ==
    \A i \in Calls :
        calls[i].op = "simulate"
        => LET r == calls[i].results
           IN  /\ StrictlyIncreasing(r.spikeTimeSteps)
               /\ \A k \in 1 .. Len(r.spikeTimeSteps) :
                    0 <= r.spikeTimeSteps[k] /\ r.spikeTimeSteps[k] < calls[i].steps
               /\ Len(r.spikeTimeSteps) = r.spikes

\* a run whose last step spikes, after an earlier spike and a silent step
C9_Witness ==
    \E i \in Calls :
        /\ calls[i].op = "simulate"
        /\ Len(calls[i].results.spikeTimeSteps) >= 2
        /\ calls[i].results.spikes < calls[i].steps
        /\ calls[i].results.spikeTimeSteps[Len(calls[i].results.spikeTimeSteps)]
             = calls[i].steps - 1

\* C10: for a positive step count n the result has 0 <= spikes <= n and
\* firingRate = spikes / n, so 0 <= firingRate <= 1.
C10_FiringRateBound ==
    \A i \in Calls :
        (calls[i].op = "simulate" /\ calls[i].steps > 0)
        => LET r == calls[i].results
           IN  /\ 0 <= r.spikes /\ r.spikes <= calls[i].steps
               /\ r.firingRate.den # 0
               /\ r.firingRate.num * calls[i].steps = r.spikes * r.firingRate.den
               /\ ~ FrLess(r.firingRate, 0, 1)
               /\ ~ FrGreater(r.firingRate, 1, 1)

\* a run that fired on some steps and not on others
C10_Witness ==
    \E i \in Calls :
        /\ calls[i].op = "simulate" /\ calls[i].steps > 0
        /\ calls[i].results.spikes > 0
        /\ calls[i].results.spikes < calls[i].steps

\* C11: for a step count of zero or less simulate never returns an undefined
\* (NaN) firingRate: the result is an empty trace with zero spikes and
\* firingRate 0 (the model's simulate never rejects a call).
C11_NoNaNForNonPositiveSteps ==
    \A i \in Calls :
        (calls[i].op = "simulate" /\ calls[i].steps <= 0)
        => /\ ~ IsNaN(calls[i].results.firingRate)
           /\ FrIsZero(calls[i].results.firingRate)
           /\ calls[i].results.spikes = 0
           /\ calls[i].results.voltageHistory = <<>>

\* ------------------------------------------------------- claims on presets

\* call i is a simulate or diagnose call
IsRun(i) == calls[i].op \in {"simulate", "diagnose"}

\* the neuron createNeuronFromCase returns for a preset, before any call on it
FreshPreset(caseName) == createNeuronFromCase(caseName).neuron

\* C12: the Case A preset (initial -70, threshold 0, stimulus 2, reset -70)
\* run for 20 steps on a fresh neuron produces 0 spikes and ends with voltage
\* -30, and diagnose(20) returns no-firing with the threshold-too-high
\* explanation.
C12_CaseANoFiring ==
    \A i \in Calls :
        (IsRun(i) /\ calls[i].before = FreshPreset("Case A") /\ calls[i].steps = 20)
        => /\ calls[i].results.spikes = 0
           /\ After(i).voltage = -30
           /\ calls[i].op = "diagnose"
              => /\ calls[i].diagnosis.problemType = "no-firing"
                 /\ calls[i].diagnosis.explanation
                      = "Threshold voltage is too high - neuron cannot reach firing threshold"

C12_Witness ==
    \E i \in Calls :
        /\ calls[i].op = "diagnose" /\ calls[i].steps = 20
        /\ calls[i].before = FreshPreset("Case A")
        /\ calls[i].before.threshold = 0 /\ calls[i].before.stimulus = 2
        /\ calls[i].diagnosis.problemType = "no-firing"

\* C13: the Case B preset (initial -70, threshold -80, stimulus 5, reset -70)
\* fires at every step of a run of any positive length on a fresh neuron
\* (spikeTimeSteps = 0 .. n-1, firingRate 1.0) and diagnose returns
\* hyperexcitable.
C13_CaseBFiresEveryStep ==
    \A i \in Calls :
        (IsRun(i) /\ calls[i].before = FreshPreset("Case B") /\ calls[i].steps > 0)
        => /\ calls[i].results.spikeTimeSteps = [k \in 1 .. calls[i].steps |-> k - 1]
           /\ calls[i].results.spikes = calls[i].steps
           /\ calls[i].results.firingRate.num = calls[i].results.firingRate.den
           /\ calls[i].op = "diagnose"
              => calls[i].diagnosis.problemType = "hyperexcitable"

C13_Witness ==
    \E i \in Calls :
        /\ calls[i].op = "diagnose" /\ calls[i].steps > 1
        /\ calls[i].before = FreshPreset("Case B")
        /\ calls[i].before.threshold = -80
        /\ Len(calls[i].results.spikeTimeSteps) = calls[i].steps
        /\ calls[i].diagnosis.problemType = "hyperexcitable"

\* C14: the Normal preset (initial -70, threshold -55, stimulus 5, reset -70)
\* run for 20 steps on a fresh neuron has a firing rate within [0.2, 0.8], and
\* diagnose(20) returns normal with severity Normal.
C14_NormalPreset ==
    \A i \in Calls :
        (IsRun(i) /\ calls[i].before = FreshPreset("Normal") /\ calls[i].steps = 20)
        => /\ ~ FrLess(calls[i].results.firingRate, 1, 5)
           /\ ~ FrGreater(calls[i].results.firingRate, 4, 5)
           /\ 20 <= 5 * calls[i].results.spikes
           /\ 5 * calls[i].results.spikes <= 4 * 20
           /\ calls[i].op = "diagnose"
              => /\ calls[i].diagnosis.problemType = "normal"
                 /\ calls[i].diagnosis.severity = "Normal"

C14_Witness ==
    \E i \in Calls :
        /\ calls[i].op = "diagnose" /\ calls[i].steps = 20
        /\ calls[i].before = FreshPreset("Normal")
        /\ calls[i].results.spikes = 6
        /\ calls[i].diagnosis.problemType = "normal"

\* C15: a fresh Case A neuron produces zero spikes for every positive number
\* of simulation steps.
C15_CaseANeverFires ==
    \A i \in Calls :
        (IsRun(i) /\ calls[i].before = FreshPreset("Case A") /\ calls[i].steps > 0)
        => calls[i].results.spikes = 0

\* C16: for every name that is not one of the five preset keys,
\* createNeuronFromCase throws and getCaseConfig returns null.
C16_UnknownPresetRejected ==
    \A i \in Calls :
        /\ (calls[i].op = "createNeuronFromCase"
            /\ calls[i].caseName \notin PresetNames)
           => calls[i].threw
        /\ (calls[i].op = "getCaseConfig"
            /\ calls[i].caseName \notin PresetNames)
           => calls[i].ret = <<>>

\* ------------------------------------------------------ claims on treatment

\* how many of threshold in [-60,-50], resetVoltage in [-75,-65] and
\* stimulus in [4,6] hold of the treated parameters
InRangeCount ==
    (IF -60 <= params.threshold /\ params.threshold <= -50 THEN 1 ELSE 0)
    + (IF -75 <= params.resetVoltage /\ params.resetVoltage <= -65 THEN 1 ELSE 0)
    + (IF 4 <= params.stimulus /\ params.stimulus <= 6 THEN 1 ELSE 0)

\* the rating the claim gives for s spikes in n steps
ExpectedEffectiveness(s, n, inRange) ==
    IF 3 * n <= 20 * s /\ 5 * s <= 2 * n /\ inRange = 3
    THEN "Excellent Treatment!"
    ELSE IF n <= 10 * s /\ 5 * s <= 3 * n /\ inRange >= 2
    THEN "Good Treatment"
    ELSE "Treatment Needs Adjustment"

\* C17: the treatment is rated Excellent exactly when firingRate is in
\* [0.15, 0.4] and all three parameters are in range; otherwise Good exactly
\* when firingRate is in [0.1, 0.6] and at least two are; otherwise Needs
\* Adjustment (all bounds inclusive).
C17_TreatmentEffectiveness ==
    \A i \in Calls :
        calls[i].op = "applyTreatment"
        => /\ calls[i].feedback.parametersFixed = InRangeCount
           /\ calls[i].feedback.effectiveness
                = ExpectedEffectiveness(calls[i].results.spikes, calls[i].steps,
                                        InRangeCount)

\* rated Excellent on the lower boundaries: firing rate exactly 0.15 with
\* threshold, reset voltage or stimulus on a limit of its range
C17_Witness ==
    \E i \in Calls :
        /\ calls[i].op = "applyTreatment"
        /\ 20 * calls[i].results.spikes = 3 * calls[i].steps
        /\ params.stimulus = 4 /\ params.resetVoltage = -75
        /\ calls[i].feedback.effectiveness = "Excellent Treatment!"

\* ------------------------------------------------- claims on the step trace

\* the voltage carried into step t of the run that returned r, read off the
\* result: the starting voltage for t = 0, after a spike the reset voltage,
\* after a normal step the voltage that step logged
Carried(r, t) ==
    IF t = 0 THEN r.parameters.initialVoltage
    ELSE IF r.simulationLog[t].type = "spike" THEN r.parameters.resetVoltage
    ELSE r.simulationLog[t].voltage

\* C18: with v the voltage carried into step t, the step computes
\* u = v + stimulus; if u >= threshold it is a spike and resetVoltage is
\* carried on, otherwise u is; nothing else changes the carried voltage, and
\* threshold, resetVoltage, stimulus and spikeVoltage are never modified.
C18_StepRecurrence ==
    \A i \in Calls :
        IsRun(i)
        => LET r == calls[i].results
           IN  /\ \A t \in 0 .. Len(r.simulationLog) - 1 :
                    LET u == Carried(r, t) + calls[i].before.stimulus
                    IN  IF u >= calls[i].before.threshold
                        THEN r.simulationLog[t + 1].type = "spike"
                        ELSE /\ r.simulationLog[t + 1].type = "normal"
                             /\ r.simulationLog[t + 1].voltage = u
               /\ r.parameters.initialVoltage
                    = (IF calls[i].before.voltage < 0 THEN calls[i].before.voltage ELSE -70)
               /\ After(i).voltage = Carried(r, Len(r.simulationLog))
               /\ After(i).threshold = calls[i].before.threshold
               /\ After(i).resetVoltage = calls[i].before.resetVoltage
               /\ After(i).stimulus = calls[i].before.stimulus
               /\ After(i).spikeVoltage = calls[i].before.spikeVoltage
               /\ r.parameters.resetVoltage = calls[i].before.resetVoltage

\* a step that reaches the threshold exactly, after a silent step and before
\* another step
C18_Witness ==
    \E i \in Calls :
        /\ calls[i].op = "simulate"
        /\ \E t \in 2 .. Len(calls[i].results.simulationLog) - 1 :
            /\ calls[i].results.simulationLog[t - 1].type = "normal"
            /\ calls[i].results.simulationLog[t - 1].voltage + calls[i].before.stimulus
                 = calls[i].before.threshold
            /\ calls[i].results.simulationLog[t].type = "spike"
            /\ calls[i].results.simulationLog[t + 1].type = "normal"

\* k - 1 is one of the recorded spike indices
IsSpikeIndex(r, k) == \E j \in 1 .. Len(r.spikeTimeSteps) : r.spikeTimeSteps[j] = k - 1

\* C19: in every result, for each step index i, simulationLog[i].timeStep is
\* i + 1 and simulationLog[i].voltage is voltageHistory[i]; a step in
\* spikeTimeSteps is logged as spike with voltageHistory at the spike peak,
\* any other step is logged as normal with voltageHistory below threshold.
C19_TraceConsistency ==
    \A i \in Calls :
        IsRun(i)
        => LET r == calls[i].results
           IN  /\ Len(r.simulationLog) = Len(r.voltageHistory)
               /\ \A k \in 1 .. Len(r.simulationLog) :
                    /\ r.simulationLog[k].timeStep = k
                    /\ r.simulationLog[k].voltage = r.voltageHistory[k]
                    /\ IF IsSpikeIndex(r, k)
                       THEN /\ r.simulationLog[k].type = "spike"
                            /\ r.voltageHistory[k] = calls[i].before.spikeVoltage
                       ELSE /\ r.simulationLog[k].type = "normal"
                            /\ r.voltageHistory[k] < calls[i].before.threshold

\* a run with a spike between two silent steps
C19_Witness ==
    \E i \in Calls :
        /\ calls[i].op = "simulate"
        /\ \E k \in 2 .. Len(calls[i].results.simulationLog) - 1 :
            /\ IsSpikeIndex(calls[i].results, k)
            /\ ~ IsSpikeIndex(calls[i].results, k - 1)
            /\ ~ IsSpikeIndex(calls[i].results, k + 1)
            /\ calls[i].results.voltageHistory[k] = 30

\* the five (problem, problemType, severity) triples
DiagnosisTriples ==
    {<<"Abnormal Reset Voltage", "poor-reset", "Critical">>,
     <<"No Action Potentials", "no-firing", "Critical">>,
     <<"Hyperexcitability", "hyperexcitable", "Critical">>,
     <<"Hypoexcitability", "hypoexcitable", "Mild">>,
     <<"Normal Function", "normal", "Normal">>}

\* C20: every diagnosis carries one of the five (problem, problemType,
\* severity) triples, so the placeholders 'Unknown' and 'none' are never
\* returned, for any configuration and step count.
C20_FiveTriples ==
    \A i \in Calls :
        calls[i].op = "diagnose"
        => <<calls[i].diagnosis.problem, calls[i].diagnosis.problemType,
             calls[i].diagnosis.severity>> \in DiagnosisTriples

\* the fallback branch taken on a run of zero steps
C20_Witness ==
    \E i \in Calls :
        /\ calls[i].op = "diagnose" /\ calls[i].steps = 0
        /\ calls[i].diagnosis.problem = "Normal Function"
        /\ calls[i].diagnosis.problemType = "normal"

\* ------------------------------------- claims on sub-causes and held results

\* C21: whenever diagnose returns no-firing, the explanation and the
\* recommendation are the threshold-too-high ones if threshold > -40, else the
\* stimulus-too-weak ones if stimulus < 3, else the generic
\* parameter-interaction ones; in each case the problem is No Action
\* Potentials, the type no-firing and the severity Critical.
C21_NoFiringSubCause ==
    \A i \in Calls :
        (calls[i].op = "diagnose" /\ calls[i].diagnosis.problemType = "no-firing")
        => LET d == calls[i].diagnosis
               threshold == calls[i].before.threshold
               stimulus == calls[i].before.stimulus
           IN  /\ d.problem = "No Action Potentials"
               /\ d.severity = "Critical"
               /\ IF threshold > -40
                  THEN /\ d.explanation = "Threshold voltage is too high - neuron cannot reach firing threshold"
                       /\ d.recommendation = <<"Lower threshold from ", threshold, "mV to around -55mV">>
                  ELSE IF stimulus < 3
                  THEN /\ d.explanation = "Stimulus is too weak to reach threshold"
                       /\ d.recommendation = <<"Increase stimulus from ", stimulus, "mV to around 5-10mV">>
                  ELSE /\ d.explanation = "Neuron parameters prevent action potential generation"
                       /\ d.recommendation = <<"Check threshold, stimulus, and reset voltage parameters">>

\* a silent run of positive length with the stimulus on the limit 3 and the
\* threshold below -40: the generic sub-cause
C21_Witness ==
    \E i \in Calls :
        /\ calls[i].op = "diagnose" /\ calls[i].steps > 0
        /\ calls[i].diagnosis.problemType = "no-firing"
        /\ calls[i].before.threshold <= -40
        /\ calls[i].before.stimulus = 3
        /\ calls[i].diagnosis.explanation = "Neuron parameters prevent action potential generation"

C23_ExcellentImpliesNormal ==
    \A i \in Calls :
        (calls[i].op = "applyTreatment"
         /\ calls[i].feedback.effectiveness = "Excellent Treatment!")
        => /\ calls[i].feedback.message
                = "Great job! You've successfully restored normal neuronal function!"
           /\ diagnose(NewNeuron(params), calls[i].steps).ret.problemType = "normal"

\* C24: for each of the five presets, the problem label diagnose(20) returns
\* on a fresh neuron created from the preset equals the preset's
\* expectedProblem field.
C24_ExpectedProblem ==
    \A i \in Calls :
        \A caseName \in PresetNames :
            (calls[i].op = "diagnose" /\ calls[i].steps = 20
             /\ calls[i].before = FreshPreset(caseName))
            => calls[i].diagnosis.problem = CASE_CONFIGS[caseName].expectedProblem

\* ------------------------------------------------------ claims on the page

\* the diagnosis content is on the page and its card is shown
DiagnosisVisible == app.diagnosisCard = "block" /\ app.diagnosisContent = "block"

\* C25: after any sequence of case selections, step-slider changes, Run and
\* Reveal Diagnosis clicks, whenever the diagnosis content is visible it was
\* computed for the same case name and the same step count as the simulation
\* result held in currentResults and shown in the chart.
C25_DiagnosisMatchesResults ==
    DiagnosisVisible
    => /\ app.currentResults # <<>>
       /\ app.diagnosisHTML # <<>>
       /\ app.diagnosisHTML[1].diagnosis.case = app.currentResults[1].name
       /\ app.diagnosisHTML[1].steps = app.currentResults[1].steps
       /\ app.chart.data = app.currentResults[1].voltageHistory

\* the step is the listener op running
Handled(op) == Len(calls') = Len(calls) + 1 /\ calls'[Len(calls')].op = op

\* C26: whenever the case dropdown holds the empty option (initially, after
\* Reset, or after the user switched back to the empty option), clicking Run
\* only alerts 'Please select a case first!' and runs no simulation:
\* currentResults, the chart and the rest of the page stay as they were.
C26_RunNeedsSelectedCase ==
    [][(Handled("runSimulation") /\ app.caseSelect = "")
       => app' = [app EXCEPT !.alert = "Please select a case first!"]]_vars

\* the Run clicks since the page was loaded or last reset
RunsSinceReset ==
    {i \in Calls : /\ calls[i].op = "runSimulation"
                   /\ \A j \in Calls : j > i => calls[j].op # "resetSimulation"}

\* C27: the diagnosis is revealed only on request: after every successful Run
\* the diagnosis content is hidden and the Reveal button shown; the content
\* becomes visible only through showDiagnosis; and showDiagnosis changes
\* nothing while no Run has been made since the page was loaded or reset.
C27_RevealOnlyOnRequest ==
    [][/\ (Handled("runSimulation") /\ app'.alert = "")
          => /\ app'.diagnosisContent = "none"
             /\ app'.showDiagnosisButton = "block"
             /\ ~ DiagnosisVisible'
       /\ ((~ DiagnosisVisible /\ DiagnosisVisible')
           \/ (app.diagnosisContent # "block" /\ app'.diagnosisContent = "block"))
          => Handled("showDiagnosis")
       /\ (Handled("showDiagnosis") /\ RunsSinceReset = {})
          => app' = Quiet(app)]_vars

\* a revealed diagnosis hidden again by the next Run
C27_Witness ==
    /\ Len(calls) = 4
    /\ calls[2].op = "runSimulation"
    /\ calls[3].op = "showDiagnosis"
    /\ calls[4].op = "runSimulation"
    /\ app.diagnosisHTML # <<>>
    /\ app.diagnosisContent = "none"
    /\ app.showDiagnosisButton = "block"
    /\ app.diagnosisCard = "block"

\* what resetSimulation leaves: no case, no results, an empty chart, the step
\* slider on 20, the empty option selected, the sections hidden
IsReset(a) ==
    /\ a.currentCase = <<>> /\ a.currentResults = <<>>
    /\ a.chart = [labels |-> <<>>, data |-> <<>>]
    /\ a.timeSteps = 20
    /\ a.caseSelect = ""
    /\ a.caseInfo = "none" /\ a.resultsSection = "none" /\ a.diagnosisCard = "none"

\* the fields IsReset reads
ResetFields(a) ==
    <<a.currentCase, a.currentResults, a.chart, a.timeSteps, a.caseSelect,
      a.caseInfo, a.resultsSection, a.diagnosisCard>>

\* the page was reset and no case has been selected since
ResetAndNoCaseSince ==
    \E i \in Calls :
        /\ calls[i].op = "resetSimulation"
        /\ \A j \in Calls :
            j > i => ~ (calls[j].op = "onCaseSelected" /\ calls[j].value # "")

\* C28: resetSimulation returns the page to its initial state from any state:
\* afterwards currentCase and currentResults are null, the chart has no
\* labels or data, the step slider reads 20 and the case-info, results and
\* diagnosis sections are hidden; until a case is selected again, Run, Reveal
\* Diagnosis and Apply Treatment change none of these.
C28_ResetRestores ==
    [][/\ Handled("resetSimulation") => IsReset(app')
       /\ (/\ ResetAndNoCaseSince
           /\ \/ Handled("runSimulation")
              \/ Handled("showDiagnosis")
              \/ Handled("applyTreatment"))
          => ResetFields(app') = ResetFields(app)]_vars

\* a case run and revealed, then reset, then Run clicked again
C28_Witness ==
    /\ Len(calls) = 4
    /\ calls[1].op = "onCaseSelected" /\ calls[1].value # ""
    /\ calls[2].op = "runSimulation"
    /\ calls[3].op = "resetSimulation"
    /\ calls[4].op = "runSimulation"
    /\ app.alert = "Please select a case first!"
    /\ IsReset(app)

\* the positions in the log where a case (not the empty option) was selected
Selections(log) ==
    {i \in 1 .. Len(log) : log[i].op = "onCaseSelected" /\ log[i].value # ""}

\* the most recently selected case of a log that has one
LastSelected(log) ==
    log[CHOOSE i \in Selections(log) : \A j \in Selections(log) : j <= i].value

\* the stored originalParameters are a copy of the preset last selected
OriginalIsPreset(log, a) ==
    IF Selections(log) = {}
    THEN a.originalParameters = <<>>
    ELSE a.originalParameters = <<CASE_CONFIGS[LastSelected(log)].parameters>>

\* the three sliders stand on the preset last selected
SlidersOnPreset(log, a) ==
    LET preset == CASE_CONFIGS[LastSelected(log)].parameters
    IN  /\ a.thresholdSlider = preset.threshold
        /\ a.resetSlider = preset.resetVoltage
        /\ a.stimulusSlider = preset.stimulus

\* C29: treatment never alters the presets: after any sequence of slider
\* changes, Apply Treatment and Run clicks the stored originalParameters are
\* the unchanged CASE_CONFIGS parameters of the most recently selected case,
\* and Reset Treatment sets the three sliders back to exactly that preset's
\* threshold, resetVoltage and stimulus.
C29_TreatmentKeepsPresets ==
    [][/\ OriginalIsPreset(calls, app)
       /\ OriginalIsPreset(calls', app')
       /\ (Handled("resetTreatment") /\ Selections(calls) # {})
          => SlidersOnPreset(calls', app')]_vars

\* Case A selected, the threshold slider moved, the treatment applied, then
\* Reset Treatment: the sliders are back on 0, -70 and 2
C29_Witness ==
    /\ Len(calls) = 4
    /\ calls[1].op = "onCaseSelected" /\ calls[1].value = "Case A"
    /\ calls[2].op = "thresholdSlider"
    /\ calls[3].op = "applyTreatment"
    /\ calls[4].op = "resetTreatment"
    /\ app.feedbackHTML # <<>>
    /\ app.thresholdSlider = 0 /\ app.resetSlider = -70 /\ app.stimulusSlider = 2
    /\ app.chart.data # <<>>

\* ------------------------------------------------ claims on the firing period

\* ceil(a / b) for b > 0
CeilDiv(a, b) == (a + b - 1) \div b

\* C30: for a configuration with stimulus > 0 and resetVoltage < threshold,
\* any two consecutive entries of spikeTimeSteps in one run differ by exactly
\* ceil((threshold - resetVoltage) / stimulus) steps; and for a configuration
\* with stimulus <= 0, if step 0 does not spike then no step of the run spikes.
C30_FiringPeriod ==
    \A i \in Calls :
        IsRun(i)
        => LET r == calls[i].results
               c == calls[i].before
           IN  /\ (c.stimulus > 0 /\ c.resetVoltage < c.threshold)
                  => \A k \in 1 .. Len(r.spikeTimeSteps) - 1 :
                        r.spikeTimeSteps[k + 1] - r.spikeTimeSteps[k]
                          = CeilDiv(c.threshold - c.resetVoltage, c.stimulus)
               /\ (c.stimulus <= 0 /\ Len(r.simulationLog) > 0
                   /\ r.simulationLog[1].type = "normal")
                  => r.spikeTimeSteps = <<>>

\* two spikes a rounded-up period apart: the distance from reset voltage to
\* threshold is no multiple of the stimulus
C30_Witness ==
    \E i \in Calls :
        /\ calls[i].op = "simulate"
        /\ calls[i].before.stimulus > 1
        /\ calls[i].before.resetVoltage < calls[i].before.threshold
        /\ (calls[i].before.threshold - calls[i].before.resetVoltage)
              % calls[i].before.stimulus # 0
        /\ Len(calls[i].results.spikeTimeSteps) >= 2
        /\ calls[i].results.spikeTimeSteps[2] - calls[i].results.spikeTimeSteps[1] > 1

====
